---- MODULE Spec2Model ----
(***************************************************************************)
(* sport2vec: the rate-limited, cache-aware fetch layer                    *)
(* (src/src/sport2vec/data/api.py) and the play-by-play normaliser         *)
(* (src/src/sport2vec/data/nba/pbp.py).                                    *)
(*                                                                         *)
(* Time is discrete; one unit stands for 250 ms of time.monotonic().       *)
(***************************************************************************)
EXTENDS Integers, Sequences, FiniteSets, TLC

(* ------------------------------ bounds --------------------------------- *)
\* longest sequence of parameter sets handed to API.requests
MaxInputs == 3
\* number of distinct (endpoint, parameters) pairs
NumKeys == 2
\* number of distinct JSON documents the server may answer with for one key
MaxVer == 1
\* latest instant at which a consumer pause or a slow request may still begin
MaxTime == 3
\* longest duration of one session.get call
MaxDur == 1
\* most rows of a batch whose clocks or scores vary
MaxRows == 3
\* most rows of a batch whose event types vary
MaxEventRows == 1
\* highest cumulative score of a team, in baskets of 6 points
MaxScore == 1
\* documents in a batch handed to raw_pbp, and actions in a document
MaxDocs == 2
MaxActions == 1

(* --------------------------- fetch layer: data -------------------------- *)
\* delay_ms of API.requests, in time units (750 ms)
delay_ms == 3

Keys == 1..NumKeys

\* A response body: ver = 0 is a body that is not JSON, ver > 0 a JSON document.
Bodies(k) == [key : {k}, ver : 0..MaxVer]

\* Python's None as the json half of the pair _request returns
None == [key |-> 0, ver |-> 0]

\* r.json(): the parsed document, or JSONDecodeError (reported here as None)
json_of(body) == IF body.ver = 0 THEN None ELSE body

VARIABLES
    params,                 \* the input sequence of parameter sets (keys)
    cache,                  \* the CachedSession store: key -> stored body
    pc,                     \* where the generator chain of API.requests stands
    now,                    \* time.monotonic()
    next_throttled_item,    \* the local of _rate_limit
    pulled,                 \* number of items _rate_limit has taken from queries
    lastSleep,              \* time slept in _rate_limit since the last request
    sleptBefore,            \* history: the time slept just before the latest request
    prevStart,              \* history: start of the latest network request, or -1
    netGap,                 \* history: start-to-start separation of the latest two
                            \*          network requests, or -1
    log,                    \* history: one entry per call of _request
    out                     \* history: the documents handed to the consumer

fetchVars == <<params, cache, pc, now, next_throttled_item, pulled, lastSleep,
              sleptBefore, prevStart, netGap, log, out>>


VARIABLES
    raw_v3,      \* the rows of raw_pbp(endpoint_version=3), snake-cased
    raw_v2,      \* the rows of raw_pbp(endpoint_version=2), snake-cased
    cpc,         \* "raw" before clean_pbp has run, then "clean" or "error"
    clean        \* the rows clean_pbp returns

cleanVars == <<raw_v3, raw_v2, cpc, clean>>

VARIABLES
    docs,              \* the documents NBA_API.requests yields to raw_pbp
    endpoint_version,  \* 2 or 3
    rpc,               \* raw_pbp: "map", "done" or "raised"
    frames,            \* the frames _df_from_json has returned so far
    raw                \* the frame raw_pbp returns

rawVars == <<docs, endpoint_version, rpc, frames, raw>>

vars == <<fetchVars, cleanVars, rawVars>>

\* mutant of queries: a list comprehension, every request made at the first pull
queries_eager(i) == Len(params)

\* queries = (self._request(endpoint, p) for p in params): the number of
\* _request calls made once item i+1 of the generator expression is produced
queries(i) == i + 1

\* limit_when = lambda x: not x[0]
limit_when(x) == ~x.from_cache

\* mutant of keep: the filter lets every item through
keep_all(j) == TRUE

\* the filter of the outer generator expression: if json is not None
keep(j) == j # None

\* mutant of CachedResult: r.from_cache is reported even when parsing fails
CachedResult_reports_hit(k) == [from_cache |-> TRUE, json |-> json_of(cache[k])]

\* session.get + r.json() for a key that is in the response cache
\* (no network; a stored body that is not JSON raises JSONDecodeError)
CachedResult(k) ==
    [from_cache |-> (json_of(cache[k]) # None), json |-> json_of(cache[k])]

Init ==
    /\ params \in UNION {[1..n -> Keys] : n \in 0..MaxInputs}
    /\ \E S \in SUBSET Keys : cache = [k \in S |-> [key |-> k, ver |-> 1]]
    /\ pc = "init"
    /\ now = 0
    /\ next_throttled_item = 0
    /\ pulled = 0
    /\ lastSleep = 0
    /\ sleptBefore = 0
    /\ prevStart = -1
    /\ netGap = -1
    /\ log = <<>>
    /\ out = <<>>
    \* clean_pbp is not in use
    /\ raw_v3 = <<>>
    /\ raw_v2 = <<>>
    /\ cpc = "raw"
    /\ clean = <<>>
    \* raw_pbp is not in use
    /\ docs = <<>>
    /\ endpoint_version = 3
    /\ rpc = "map"
    /\ frames = <<>>
    /\ raw = <<>>

\* the consumer asks for the next document: next() on the generator
ConsumerNext ==
    /\ pc \in {"init", "suspended"}
    /\ IF pc = "init"
         THEN /\ next_throttled_item' = now     \* line 19, run at the first next()
              /\ pc' = "pull"
         ELSE /\ pc' = "resume"
              /\ UNCHANGED next_throttled_item
    /\ UNCHANGED <<params, cache, now, pulled, lastSleep, sleptBefore, prevStart, netGap, log, out>>
    /\ UNCHANGED <<cleanVars, rawVars>>

\* the consumer holds a document for a while before asking again
Pause ==
    /\ pc \in {"init", "suspended"}
    /\ now < MaxTime
    /\ now' = now + 1
    /\ UNCHANGED <<params, cache, pc, next_throttled_item, pulled, lastSleep, sleptBefore,
                   prevStart, netGap, log, out>>
    /\ UNCHANGED <<cleanVars, rawVars>>

\* the consumer abandons the sequence (e.g. it caps the number of games)
Stop ==
    /\ pc \in {"init", "suspended"}
    /\ pc' = "abandoned"
    /\ UNCHANGED <<params, cache, now, next_throttled_item, pulled, lastSleep, sleptBefore,
                   prevStart, netGap, log, out>>
    /\ UNCHANGED <<cleanVars, rawVars>>

\* what happens to the item just produced by queries: handed to the consumer,
\* or filtered out, in which case the filter asks _rate_limit for the next one
AfterItem(entry, n) ==
    IF n < queries(pulled)
      THEN /\ pc' = "pull"
           /\ UNCHANGED <<pulled, out>>
      ELSE /\ pulled' = pulled + 1
           /\ IF keep(entry.json)
                THEN /\ out' = Append(out, entry.json)
                     /\ pc' = "suspended"
                ELSE /\ out' = out
                     /\ pc' = "resume"

\* next(queries): one call of API._request for the next parameter set
Request ==
    /\ pc = "pull"
    /\ Len(log) < Len(params)
    /\ Len(log) < queries(pulled)
    /\ LET n == Len(log) + 1
           k == params[n]
       IN  \E dur \in 0..MaxDur :
           /\ (dur = 0 \/ now + dur <= MaxTime)
           /\ now' = now + dur
           /\ lastSleep' = 0
           /\ sleptBefore' = lastSleep
           /\ IF k \in DOMAIN cache
                THEN UNCHANGED <<prevStart, netGap>>
                ELSE /\ prevStart' = now
                     /\ netGap' = IF prevStart = -1 THEN -1 ELSE now - prevStart
           /\ IF k \in DOMAIN cache
                THEN \* served by the CachedSession
                     LET e == [key |-> k, net |-> FALSE] @@ CachedResult(k)
                     IN  /\ log' = Append(log, e)
                         /\ cache' = cache
                         /\ AfterItem(e, n)
                ELSE \* a real network request
                     \/ \* requests.Timeout: not caught by `except JSONDecodeError`
                        /\ log' = Append(log, [key |-> k, net |-> TRUE,
                                               from_cache |-> FALSE, json |-> None])
                        /\ pc' = "raised"
                        /\ UNCHANGED <<cache, pulled, out>>
                     \/ \* a response arrives: a JSON document (status 200, stored by
                        \* the session), or a body that is not JSON, which the
                        \* session stores when its status is 200
                        \E body \in Bodies(k), st \in BOOLEAN :
                          LET e == [key |-> k, net |-> TRUE,
                                    from_cache |-> FALSE, json |-> json_of(body)]
                          IN  /\ (body.ver > 0 => st)
                              /\ log' = Append(log, e)
                              /\ cache' = IF st THEN [x \in DOMAIN cache \cup {k} |->
                                                        IF x = k THEN body ELSE cache[x]]
                                                ELSE cache
                              /\ AfterItem(e, n)
    /\ UNCHANGED <<params, next_throttled_item>>
    /\ UNCHANGED <<cleanVars, rawVars>>

\* queries is exhausted: StopIteration reaches the consumer
Exhaust ==
    /\ pc = "pull"
    /\ pulled = Len(params)
    /\ pc' = "done"
    /\ UNCHANGED <<params, cache, now, next_throttled_item, pulled, lastSleep, sleptBefore,
                   prevStart, netGap, log, out>>
    /\ UNCHANGED <<cleanVars, rawVars>>

\* the code of _rate_limit after `yield item` (lines 24-31)
Throttle ==
    /\ pc = "resume"
    /\ pc' = "pull"
    /\ IF ~limit_when(log[pulled])
         THEN UNCHANGED <<now, next_throttled_item, lastSleep>>
         ELSE \* the two reads of time.monotonic() fall in the same time unit
              LET sleep_time == next_throttled_item - now
              IN  /\ next_throttled_item' = now + delay_ms
                  /\ IF sleep_time > 0
                       THEN /\ now' = now + sleep_time    \* time.sleep
                            /\ lastSleep' = lastSleep + sleep_time
                       ELSE UNCHANGED <<now, lastSleep>>
    /\ UNCHANGED <<params, cache, pulled, sleptBefore, prevStart, netGap, log, out>>
    /\ UNCHANGED <<cleanVars, rawVars>>

\* the documents among the results of a run of requests, in order
RECURSIVE Docs(_)
Docs(l) ==
    IF l = <<>> THEN <<>>
    ELSE IF l[1].json # None THEN <<l[1].json>> \o Docs(Tail(l))
    ELSE Docs(Tail(l))

\* the consumer has asked for a document it has not been given yet
consumerWaiting == pc \in {"pull", "resume", "done", "raised"}

\* number of times the consumer has asked for the next document
asked == Len(out) + (IF consumerWaiting THEN 1 ELSE 0)

(* ------------------------ normaliser: strings --------------------------- *)
\* A string is a sequence of tokens: single characters for clocks, scores
\* and numbers, whole words or phrases for the free-text columns.  The empty
\* sequence is the empty string; polars' null is the empty sequence too,
\* since clean_pbp rewrites "" to null before it reads any column.
Null == <<>>

Some(v) == <<v>>

DigitChars == <<"0", "1", "2", "3", "4", "5", "6", "7", "8", "9">>

IsDigit(c) == \E i \in 1..10 : DigitChars[i] = c

DigitVal(c) == (CHOOSE i \in 1..10 : DigitChars[i] = c) - 1

\* str.strip_chars(): leading and trailing whitespace removed
RECURSIVE strip_chars(_)
strip_chars(s) ==
    IF s = <<>> THEN s
    ELSE IF Head(s) = " " THEN strip_chars(Tail(s))
    ELSE IF s[Len(s)] = " " THEN strip_chars(SubSeq(s, 1, Len(s) - 1))
    ELSE s

\* value of a non-empty run of digit characters
RECURSIVE DigitsValue(_)
DigitsValue(s) ==
    IF s = <<>> THEN 0
    ELSE 10 * DigitsValue(SubSeq(s, 1, Len(s) - 1)) + DigitVal(s[Len(s)])

IsDigits(s) == s # <<>> /\ \A i \in 1..Len(s) : IsDigit(s[i])

\* cast(str) of a non-negative integer
RECURSIVE int_to_str(_)
int_to_str(n) ==
    IF n < 10 THEN <<DigitChars[n + 1]>>
    ELSE int_to_str(n \div 10) \o <<DigitChars[(n % 10) + 1]>>

\* str.pad_start(length, "0")
RECURSIVE pad_start(_, _)
pad_start(s, length) == IF Len(s) >= length THEN s ELSE pad_start(<<"0">> \o s, length)

(* ------------------------- normaliser: columns -------------------------- *)
\* with_columns(pl.col(str).str.strip_chars().replace({"": None}),
\*              (cs.ends_with("_id") & cs.numeric()).replace({0: None}))
normalise(r) ==
    [r EXCEPT !.clock = strip_chars(@),
              !.action_type = strip_chars(@),
              !.sub_type = strip_chars(@),
              !.description = strip_chars(@),
              !.score_home = strip_chars(@),
              !.score_away = strip_chars(@),
              !.team_id = IF @ = 0 THEN Null ELSE Some(@)]

\* mutant of action_id: the action number is not padded
action_id_unpadded(game_id, action_number) == <<game_id, "-">> \o int_to_str(action_number)

\* action_id: "{game_id}-{action_number padded to 4 digits}"
action_id(game_id, action_number) ==
    <<game_id, "-">> \o pad_start(int_to_str(action_number), 4)

\* players_for_action: the three player slots of a v2 row, 0 read as null
v2_players(v) ==
    <<IF v.player1_id = 0 THEN Null ELSE Some(v.player1_id),
      IF v.player2_id = 0 THEN Null ELSE Some(v.player2_id),
      IF v.player3_id = 0 THEN Null ELSE Some(v.player3_id)>>

\* players: action_id.replace_strict(<v2 action ids>, <v2 slots>, default=None)
players(r) ==
    LET hits == {j \in 1..Len(raw_v2) :
                    action_id(raw_v2[j].game_id, raw_v2[j].eventnum)
                        = action_id(r.game_id, r.action_number)}
    IN  IF hits = {} THEN Null ELSE Some(v2_players(raw_v2[CHOOSE j \in hits : TRUE]))

\* mutant of arr_get: slots counted from 1 instead of 0
arr_get_off_by_one(a, i) == IF a = Null \/ i + 2 > 3 THEN Null ELSE a[1][i + 2]

\* players.arr.get(i): slot i (from 0) of the players array, null if there is none
arr_get(a, i) == IF a = Null THEN Null ELSE a[1][i + 1]

\* str.extract(r"(STEAL|BLOCK)").str.to_titlecase() on the description
RECURSIVE steal_or_block(_)
steal_or_block(d) ==
    IF d = <<>> THEN Null
    ELSE IF Head(d) = "STEAL" THEN <<"Steal">>
    ELSE IF Head(d) = "BLOCK" THEN <<"Block">>
    ELSE steal_or_block(Tail(d))

\* mutant of event_type: the rewrite table without the fill_null fallback
event_type_no_fallback(r) ==
    IF r.action_type \in {<<"Made Shot">>, <<"Missed Shot">>} THEN <<"Shot">>
    ELSE IF r.action_type = <<"Violation">> THEN <<"Foul">>
    ELSE r.action_type

\* event_type: action_type.replace({...}).fill_null(<STEAL|BLOCK of description>)
event_type(r) ==
    IF r.action_type \in {<<"Made Shot">>, <<"Missed Shot">>} THEN <<"Shot">>
    ELSE IF r.action_type = <<"Violation">> THEN <<"Foul">>
    ELSE IF r.action_type = Null THEN steal_or_block(r.description)
    ELSE r.action_type

\* event_subtype: the sub_type column
event_subtype(r) == r.sub_type

(* minutes_remaining *)

\* the regular expression PT(?<minutes>\d+)M(?<seconds>[\d\.].+)S tried at
\* position i of s: the set of <<end of minutes, position of the final S>>
\* the greedy match ends with (empty when there is no match at i)
ClockMatchAt(s, i) ==
    IF ~(i + 1 <= Len(s) /\ s[i] = "P" /\ s[i + 1] = "T") THEN {}
    ELSE LET ends == {e \in i + 2..Len(s) :
                         /\ \A x \in i + 2..e : IsDigit(s[x])
                         /\ e + 1 <= Len(s) /\ s[e + 1] = "M"}
         IN  IF ends = {} THEN {}
             ELSE LET e == CHOOSE x \in ends : TRUE
                      j == e + 2
                      lasts == {q \in j + 2..Len(s) : s[q] = "S"}
                  IN  IF j <= Len(s) /\ (IsDigit(s[j]) \/ s[j] = ".") /\ lasts # {}
                        THEN {<<i, e, CHOOSE q \in lasts : \A q2 \in lasts : q2 <= q>>}
                        ELSE {}

\* str.extract_groups: the groups of the leftmost match, or nulls
extract_clock(s) ==
    LET all == UNION {ClockMatchAt(s, i) : i \in 1..Len(s)}
    IN  IF all = {} THEN [minutes |-> Null, seconds |-> Null]
        ELSE LET m == CHOOSE x \in all : \A y \in all : x[1] <= y[1]
             IN  [minutes |-> SubSeq(s, m[1] + 2, m[2]),
                  seconds |-> SubSeq(s, m[2] + 2, m[3] - 1)]

\* does cast(float) accept the text: digits with at most one decimal point
IsFloat(s) ==
    /\ \E i \in 1..Len(s) : IsDigit(s[i])
    /\ \A i \in 1..Len(s) : IsDigit(s[i]) \/ s[i] = "."
    /\ Cardinality({i \in 1..Len(s) : s[i] = "."}) <= 1

\* the value cast(float) gives, in hundredths (two decimals are kept)
Hundredths(s) ==
    LET dots == {i \in 1..Len(s) : s[i] = "."}
        d == IF dots = {} THEN Len(s) + 1 ELSE CHOOSE i \in dots : TRUE
        whole == SubSeq(s, 1, d - 1)
        frac == SubSeq(SubSeq(s, d + 1, Len(s)) \o <<"0", "0">>, 1, 2)
    IN  100 * DigitsValue(whole) + DigitsValue(frac)

\* the strict cast(float) of the two groups fails on text that is no number
clock_cast_fails(r) ==
    LET g == extract_clock(r.clock)
    IN  g.seconds # Null /\ ~IsFloat(g.seconds)

\* minutes_remaining = sum_horizontal(minutes, seconds / 60), counted in
\* 1/6000 of a minute (a hundredth of a second); the nulls of a clock that
\* does not match add up to 0
minutes_remaining(r) ==
    LET g == extract_clock(r.clock)
    IN  IF g.minutes = Null THEN 0
        ELSE 6000 * DigitsValue(g.minutes) + Hundredths(g.seconds)

(* points *)

\* str.to_integer() fails on text that is no integer
score_cast_fails(r) ==
    \/ r.score_home # Null /\ ~IsDigits(r.score_home)
    \/ r.score_away # Null /\ ~IsDigits(r.score_away)

\* mutant of over_game_id: no window, the whole table is one group
over_nothing(t, i) == 1..Len(t)

\* .over("game_id"): the rows of the window row i is evaluated in
over_game_id(t, i) == {j \in 1..Len(t) : t[j].game_id = t[i].game_id}

\* str.to_integer().fill_null(strategy="forward") of one score column at row i
fill_forward(t, col, i) ==
    LET known == {j \in over_game_id(t, i) : j <= i /\ t[j][col] # Null}
    IN  IF known = {} THEN Null
        ELSE Some(DigitsValue(t[CHOOSE j \in known : \A x \in known : x <= j][col]))

\* .diff(): the filled value minus that of the previous row of the window
score_diff(t, col, i) ==
    LET before == {j \in over_game_id(t, i) : j < i}
    IN  IF before = {} THEN Null
        ELSE LET p == CHOOSE j \in before : \A x \in before : x <= j
                 a == fill_forward(t, col, p)
                 b == fill_forward(t, col, i)
             IN  IF a = Null \/ b = Null THEN Null ELSE Some(b[1] - a[1])

\* points = sum_horizontal(score.diff()).over("game_id"), nulls counting 0
points(t, i) ==
    LET h == score_diff(t, "score_home", i)
        a == score_diff(t, "score_away", i)
    IN  (IF h = Null THEN 0 ELSE h[1]) + (IF a = Null THEN 0 ELSE a[1])

(* event_details *)

\* str.extract_groups(r"(?<attempt>\d) of (?<of>\d)") on the subtype, cast to
\* int: the first place where a digit, " of " and a digit follow each other
extract_attempt(s) ==
    LET at == {k \in 1..(Len(s) - 2) :
                  IsDigit(s[k]) /\ s[k + 1] = " of " /\ IsDigit(s[k + 2])}
    IN  IF at = {} THEN [attempt |-> Null, of |-> Null]
        ELSE LET k == CHOOSE x \in at : \A y \in at : x <= y
             IN  [attempt |-> Some(DigitVal(s[k])), of |-> Some(DigitVal(s[k + 2]))]

\* the payload of one event type for row i of table t (geometry of a shot,
\* being real-valued, is left out)
event_details(name, t, i) ==
    LET r == t[i]
        pl == players(r)
    IN  CASE name = "Block" -> [by |-> arr_get(pl, 2), on |-> arr_get(pl, 0)]
          [] name = "Free Throw" -> [attempt |-> extract_attempt(event_subtype(r)).attempt,
                                     of |-> extract_attempt(event_subtype(r)).of,
                                     made |-> points(t, i) > 0]
          [] name = "Foul" -> [by |-> arr_get(pl, 0), on |-> arr_get(pl, 1)]
          [] name = "Jump Ball" -> [players |-> <<arr_get(pl, 0), arr_get(pl, 1)>>,
                                    recovered_by |-> arr_get(pl, 2)]
          [] name = "Rebound" -> [by |-> arr_get(pl, 0), type |-> Null]
          [] name = "Shot" -> [points |-> r.shot_value,
                               made |-> points(t, i) > 0,
                               type |-> event_subtype(r),
                               by |-> arr_get(pl, 0),
                               assisted_by |-> arr_get(pl, 1)]
          [] name = "Steal" -> [by |-> arr_get(pl, 1), stolen_from |-> arr_get(pl, 0)]
          [] name = "Substitution" -> [in |-> arr_get(pl, 1), out |-> arr_get(pl, 0)]
          [] name = "Turnover" -> [by |-> arr_get(pl, 0),
                                   recovered_by |-> arr_get(pl, 1),
                                   type |-> event_subtype(r)]

\* the keys of the event_details dictionary
DetailNames == {"Block", "Free Throw", "Foul", "Jump Ball", "Rebound", "Shot",
                "Steal", "Substitution", "Turnover"}

\* mutant of events: every payload column is filled in, whatever the event type
events_unconditional(t, i) ==
    [name \in DetailNames |-> Some(event_details(name, t, i))]

\* events: pl.when(event_type == t).then(details), one column per event type
events(t, i) ==
    [name \in DetailNames |->
        IF event_type(t[i]) = <<name>> THEN Some(event_details(name, t, i)) ELSE Null]

\* the rows .select() returns: every row of the frame
select_rows(t) == 1..Len(t)

\* one row of the frame clean_pbp returns
clean_row(t, i) ==
    [game_id |-> t[i].game_id,
     action_id |-> action_id(t[i].game_id, t[i].action_number),
     team_id |-> t[i].team_id,
     period |-> t[i].period,
     mins_remaining |-> minutes_remaining(t[i]),
     type |-> event_type(t[i]),
     points |-> points(t, i),
     description |-> t[i].description,
     src |-> i,
     events |-> events(t, i)]

RECURSIVE RowsOf(_, _, _)
RowsOf(t, keep_rows, i) ==
    IF i > Len(t) THEN <<>>
    ELSE (IF i \in keep_rows THEN <<clean_row(t, i)>> ELSE <<>>) \o RowsOf(t, keep_rows, i + 1)

\* clean_pbp: normalise the text columns, then select the output columns; a
\* failed strict cast raises and no frame is returned
CleanPbp ==
    /\ cpc = "raw"
    /\ LET t == [i \in 1..Len(raw_v3) |-> normalise(raw_v3[i])]
       IN  IF \E i \in 1..Len(t) : clock_cast_fails(t[i]) \/ score_cast_fails(t[i])
             THEN /\ cpc' = "error"
                  /\ clean' = <<>>
             ELSE /\ cpc' = "clean"
                  /\ clean' = RowsOf(t, select_rows(t), 1)
    /\ UNCHANGED <<raw_v3, raw_v2>>
    /\ UNCHANGED <<fetchVars, rawVars>>

(* ------------------------------ raw_pbp --------------------------------- *)

\* the key lookups of _df_from_json: json["game"]["actions"] and
\* json["game"]["gameId"], or json["resultSets"][0]["rowSet"] and ["headers"];
\* a missing key raises KeyError
df_raises(version, doc) ==
    IF version = 3
      THEN ~({"game", "game.actions", "game.gameId"} \subseteq doc.paths)
      ELSE ~({"resultSets", "resultSets.0.rowSet", "resultSets.0.headers"} \subseteq doc.paths)

\* _df_from_json: the frame of a document, one row per action
df_from_json(version, doc) ==
    [k \in 1..doc.actions |-> [game_id |-> doc.game_id, action_number |-> k]]

\* pl.concat: the rows of the frames, one frame after the other
RECURSIVE concat(_)
concat(fs) == IF fs = <<>> THEN <<>> ELSE Head(fs) \o concat(Tail(fs))

\* map(_df_from_json, ...) as pl.concat draws the next frame from it: an
\* exception of _df_from_json leaves raw_pbp
DfFromJson ==
    /\ rpc = "map"
    /\ Len(frames) < Len(docs)
    /\ LET doc == docs[Len(frames) + 1]
       IN  IF df_raises(endpoint_version, doc)
             THEN /\ rpc' = "raised"
                  /\ UNCHANGED frames
             ELSE /\ frames' = Append(frames, df_from_json(endpoint_version, doc))
                  /\ UNCHANGED rpc
    /\ UNCHANGED <<docs, endpoint_version, raw>>
    /\ UNCHANGED <<fetchVars, cleanVars>>

\* pl.concat once the documents are used up: it raises on no frame at all
Concat ==
    /\ rpc = "map"
    /\ Len(frames) = Len(docs)
    /\ IF frames = <<>>
         THEN /\ rpc' = "raised"
              /\ UNCHANGED raw
         ELSE /\ rpc' = "done"
              /\ raw' = concat(frames)
    /\ UNCHANGED <<docs, endpoint_version, frames>>
    /\ UNCHANGED <<fetchVars, cleanVars>>

(* --------------------------- specifications ----------------------------- *)
Next == ConsumerNext \/ Pause \/ Stop \/ Request \/ Exhaust \/ Throttle

\* the fetch layer: API.requests driven by a consumer
Spec == Init /\ [][Next]_vars

\* a v3 row in which nothing is of interest
PlainRow ==
    [game_id |-> "g1", action_number |-> 1, team_id |-> 0, period |-> 1,
     clock |-> <<"P", "T", "1", "2", "M", "0", "0", ".", "0", "0", "S">>,
     action_type |-> <<"Timeout">>, sub_type |-> Null, description |-> Null,
     score_home |-> Null, score_away |-> Null, shot_value |-> Null]

\* clock texts: well-formed ones, one whose seconds have a single character,
\* one whose seconds are no number, and two that are no clock at all
Clocks ==
    { <<"P", "T", "1", "1", "M", "3", "0", "S">>,
      <<"P", "T", "0", "M", "0", "7", ".", "5", "S">>,
      <<"P", "T", "2", "M", "5", "S">>,
      <<"P", "T", "1", "M", "3", "x", "S">>,
      <<"1", "1", ":", "3", "0">>,
      <<>> }

\* batches that differ in their clocks
ClockTables ==
    UNION {[1..n -> {[PlainRow EXCEPT !.clock = c] : c \in Clocks}] : n \in 0..MaxRows}

\* the score texts of a row: both blank, or both cumulative scores
ScorePairs ==
    {<<Null, Null>>} \cup
    {<<int_to_str(6 * h), int_to_str(6 * a)>> : h \in 0..MaxScore, a \in 0..MaxScore}

Games == {"g1", "g2"}

\* the cumulative scores of a game never go down
Cumulative(t) ==
    \A i, j \in 1..Len(t), col \in {"score_home", "score_away"} :
        (i < j /\ t[i].game_id = t[j].game_id /\ t[i][col] # Null /\ t[j][col] # Null)
            => DigitsValue(t[i][col]) <= DigitsValue(t[j][col])

\* batches that differ in their games and scores
ScoreTables ==
    {t \in UNION {[1..n -> {[PlainRow EXCEPT !.game_id = g, !.score_home = sc[1],
                                            !.score_away = sc[2],
                                            !.action_type = <<"Made Shot">>] :
                               g \in Games, sc \in ScorePairs}] : n \in 0..MaxRows} :
        Cumulative(t)}

ActionTypes ==
    { <<"Made Shot">>, <<"Missed Shot">>, <<"Violation">>, <<"Foul">>, <<"Free Throw">>,
      <<"Rebound">>, <<"Turnover">>, <<"Substitution">>, <<"Timeout">>, <<"Jump Ball">>,
      <<"Instant Replay">>, <<" ">>, <<>> }

Descriptions == { <<>>, <<"Smith", "STEAL", "(1 STL)">>, <<"Jones", "BLOCK", "(2 BLK)">>,
                  <<"Jump Ball">> }

\* rows that differ in action type and description, and free throws that
\* name their attempt in the subtype
EventRows ==
    {[PlainRow EXCEPT !.action_type = ty, !.description = d] :
        ty \in ActionTypes, d \in Descriptions}
    \cup {[PlainRow EXCEPT !.action_type = <<"Free Throw">>,
                           !.sub_type = <<"Free Throw ", "1", " of ", "2">>]}

\* batches of such rows, numbered 1, 2, ...
EventTables ==
    UNION {{[i \in 1..n |-> [f[i] EXCEPT !.action_number = i]] :
              f \in [1..n -> EventRows]} :
           n \in 1..MaxEventRows}

\* v2 tables: for each of the first two event numbers, no row or a row with
\* one of two slot assignments
SlotChoices == {<<0, 0, 0>>, <<1, 2, 3>>, <<3, 0, 1>>}

V2Row(e, sl) ==
    [game_id |-> "g1", eventnum |-> e,
     player1_id |-> sl[1], player2_id |-> sl[2], player3_id |-> sl[3]]

V2Tables ==
    {<<>>} \cup {<<V2Row(1, a)>> : a \in SlotChoices \ {<<0, 0, 0>>}}
           \cup {<<V2Row(2, b), V2Row(1, a)>> : a, b \in SlotChoices \ {<<0, 0, 0>>}}

\* action numbers of one, two, four and five digits
ActionNumbers == {1, 2, 10, 9999, 10000}

\* batches that differ in their game ids and action numbers
IdTables ==
    UNION {[1..n -> {[PlainRow EXCEPT !.game_id = g, !.action_number = a] :
                        g \in Games, a \in ActionNumbers}] : n \in 2..MaxRows}

\* a batch handed to clean_pbp; no request is in flight meanwhile
CleanInit ==
    /\ cpc = "raw"
    /\ clean = <<>>
    /\ \/ raw_v3 \in ClockTables /\ raw_v2 = <<>>
       \/ raw_v3 \in ScoreTables /\ raw_v2 = <<>>
       \/ raw_v3 \in EventTables /\ raw_v2 \in V2Tables
       \/ raw_v3 \in IdTables /\ raw_v2 = <<>>
    /\ params = <<>>
    /\ cache = <<>>
    /\ pc = "init"
    /\ now = 0
    /\ next_throttled_item = 0
    /\ pulled = 0
    /\ lastSleep = 0
    /\ sleptBefore = 0
    /\ prevStart = -1
    /\ netGap = -1
    /\ log = <<>>
    /\ out = <<>>
    /\ docs = <<>>
    /\ endpoint_version = 3
    /\ rpc = "map"
    /\ frames = <<>>
    /\ raw = <<>>

CleanNext == CleanPbp

\* the normaliser: clean_pbp applied to one batch
SpecClean == CleanInit /\ [][CleanNext]_vars

\* the key paths of a document of each shape
V3Paths == {"game", "game.gameId", "game.actions"}
V2Paths == {"resultSets", "resultSets.0.headers", "resultSets.0.rowSet"}

\* the documents an endpoint may answer with: well-formed ones of one or the
\* other game with up to MaxActions rows, one that lacks the rows, and one
\* that is an error message
DocsOf(version) ==
    {[paths |-> (IF version = 3 THEN V3Paths ELSE V2Paths), game_id |-> g, actions |-> a] :
        g \in Games, a \in 0..MaxActions}
    \cup {[paths |-> (IF version = 3 THEN {"game", "game.gameId"}
                                      ELSE {"resultSets", "resultSets.0.headers"}),
           game_id |-> "g1", actions |-> 0],
          [paths |-> {"message"}, game_id |-> "g1", actions |-> 0]}

\* the documents of a batch of games, as the fetch layer yields them
RawInit ==
    /\ endpoint_version \in {2, 3}
    /\ docs \in UNION {[1..n -> DocsOf(endpoint_version)] : n \in 0..MaxDocs}
    /\ rpc = "map"
    /\ frames = <<>>
    /\ raw = <<>>
    /\ raw_v3 = <<>>
    /\ raw_v2 = <<>>
    /\ cpc = "raw"
    /\ clean = <<>>
    /\ params = <<>>
    /\ cache = <<>>
    /\ pc = "init"
    /\ now = 0
    /\ next_throttled_item = 0
    /\ pulled = 0
    /\ lastSleep = 0
    /\ sleptBefore = 0
    /\ prevStart = -1
    /\ netGap = -1
    /\ log = <<>>
    /\ out = <<>>

RawNext == DfFromJson \/ Concat

\* raw_pbp applied to the documents of one batch
SpecRaw == RawInit /\ [][RawNext]_vars

(* ------------------------- fetch layer: claims -------------------------- *)

\* C1: any two consecutive network (cache-miss) requests are separated by at
\* least delay_ms, measured from the start of the one to the start of the other.
C1_MinInterval == netGap = -1 \/ netGap >= delay_ms

\* C2: a cache-hit request is never preceded by a throttle wait: no time is
\* slept in _rate_limit between the previous item and a request served from
\* the cache.
C2_HitsUnthrottled ==
    (Len(log) > 0 /\ log[Len(log)].from_cache) => sleptBefore = 0

\* C3: when a request for a key went to the network and succeeded, a later
\* request for the same key makes no network call, returns the identical
\* document, and is not preceded by a throttle wait.
C3_CacheSemantics ==
    \A m \in 1..Len(log) - 1 :
        LET n == Len(log)
        IN  (log[m].key = log[n].key /\ log[m].net /\ log[m].json # None)
            => /\ ~log[n].net
               /\ log[n].json = log[m].json
               /\ sleptBefore = 0

\* C4: every input is requested once, in input order, and the output is the
\* documents of the inputs whose request yielded one, in the same order; when
\* the sequence is exhausted every input has been requested.
C4_OnePerInputInOrder ==
    /\ Len(log) <= Len(params)
    /\ \A n \in 1..Len(log) : log[n].key = params[n]
    /\ out = Docs(SubSeq(log, 1, pulled))
    /\ pc = "done" => (Len(log) = Len(params) /\ out = Docs(log))

C4_Witness ==
    /\ pc = "done"
    /\ Len(params) = 3
    /\ Len(out) = 2
    /\ log[2].json = None

\* C5: a timeout and a parse failure are both non-fatal: no exception reaches
\* the consumer, and once the sequence has ended every input was requested
\* and the output holds the documents of the inputs that yielded one.
C5_FailuresNonFatal ==
    /\ pc # "raised"
    /\ pc = "done" => (Len(log) = Len(params) /\ out = Docs(log))

\* C6: the sequence is lazy and safe to abandon: at every moment the requests
\* before the latest one yielded fewer documents than the consumer has asked
\* for (so the latest request was needed), and while the consumer is not
\* asking (it holds a document, or has stopped) no request is issued and no
\* throttle wait is performed.
C6_Lazy ==
    /\ [](Len(log) > 0 => Len(Docs(SubSeq(log, 1, Len(log) - 1))) < asked)
    /\ [][~consumerWaiting => (log' = log /\ lastSleep' = lastSleep)]_vars

C6_Witness ==
    /\ pc = "abandoned"
    /\ Len(out) = 1
    /\ Len(log) = 2
    /\ Len(params) = 3

\* C15: processing an item that was served from the cache leaves the rate
\* limiter as it was: the code after the yield neither moves the deadline
\* next_throttled_item nor sleeps, so that the deadline moves only for items
\* that were network requests.
C15_HitsLeaveLimiter ==
    [][(pc = "resume" /\ ~log[pulled].net)
          => (next_throttled_item' = next_throttled_item /\ lastSleep' = lastSleep)]_vars

ValidClock(s) ==
    \E e \in 3..Len(s) - 3 :
        /\ s[1] = "P" /\ s[2] = "T"
        /\ IsDigits(SubSeq(s, 3, e))
        /\ s[e + 1] = "M"
        /\ IsFloat(SubSeq(s, e + 2, Len(s) - 1))
        /\ s[Len(s)] = "S"

\* C7: a batch of K records with valid clocks plus 1 record whose clock
\* text does not match the pattern yields exactly the K valid records: the
\* bad one is dropped and processing is not aborted.
C7_BadClockDropped ==
    LET bad == {i \in 1..Len(raw_v3) : ~ValidClock(raw_v3[i].clock)}
    IN  (cpc # "raw" /\ Cardinality(bad) = 1 /\ \A i \in bad : raw_v3[i].clock # <<>>) =>
            /\ cpc = "clean"
            /\ Len(clean) = Len(raw_v3) - 1
            /\ \A n \in 1..Len(clean) : clean[n].src \notin bad

\* the v2 slots recorded for the action of a v3 row, or Null
SlotsOf(r) ==
    LET hits == {j \in 1..Len(raw_v2) : /\ raw_v2[j].game_id = r.game_id
                                        /\ raw_v2[j].eventnum = r.action_number}
    IN  IF hits = {} THEN Null ELSE Some(raw_v2[CHOOSE j \in hits : TRUE])

NullIfZero(p) == IF p = 0 THEN Null ELSE Some(p)

\* C8: for a record with participant slots [A, B, C] the roles are: Block
\* by=C, on=A; Steal by=B, stolen_from=A; Foul by=A, on=B; Turnover by=A,
\* recovered_by=B; Rebound by=A; Jump Ball players=(A, B), recovered_by=C;
\* Substitution in=B, out=A; Shot by=A, assisted_by=B.
C8_SlotMapping ==
    cpc = "clean" =>
        \A n \in 1..Len(clean) :
            LET c == clean[n]
                v == SlotsOf(raw_v3[c.src])
                A == NullIfZero(v[1].player1_id)
                B == NullIfZero(v[1].player2_id)
                C == NullIfZero(v[1].player3_id)
                ev(name) == c.events[name][1]
            IN  v # Null =>
                /\ c.type = <<"Block">> => ev("Block").by = C /\ ev("Block").on = A
                /\ c.type = <<"Steal">> => ev("Steal").by = B /\ ev("Steal").stolen_from = A
                /\ c.type = <<"Foul">> => ev("Foul").by = A /\ ev("Foul").on = B
                /\ c.type = <<"Turnover">> =>
                       ev("Turnover").by = A /\ ev("Turnover").recovered_by = B
                /\ c.type = <<"Rebound">> => ev("Rebound").by = A
                /\ c.type = <<"Jump Ball">> =>
                       /\ ev("Jump Ball").players = <<A, B>>
                       /\ ev("Jump Ball").recovered_by = C
                /\ c.type = <<"Substitution">> =>
                       ev("Substitution").in = B /\ ev("Substitution").out = A
                /\ c.type = <<"Shot">> => ev("Shot").by = A /\ ev("Shot").assisted_by = B

C8_Witness ==
    /\ cpc = "clean"
    /\ Len(raw_v2) = 2
    /\ Len(clean) = 1
    /\ clean[1].type = <<"Block">>
    /\ clean[1].events["Block"] = Some([by |-> Some(3), on |-> Some(1)])

\* the last cumulative score of game g known at row i (0: before the table)
RECURSIVE LastKnown(_, _, _, _)
LastKnown(t, g, col, i) ==
    IF i = 0 THEN Null
    ELSE IF t[i].game_id = g /\ strip_chars(t[i][col]) # Null
           THEN Some(DigitsValue(strip_chars(t[i][col])))
    ELSE LastKnown(t, g, col, i - 1)

\* the row of the same game before row i, or 0
RECURSIVE PrevInGame(_, _, _)
PrevInGame(t, g, i) ==
    IF i = 0 THEN 0
    ELSE IF t[i].game_id = g THEN i
    ELSE PrevInGame(t, g, i - 1)

\* the change of one cumulative score from the previous record of the game
Delta(t, col, i) ==
    LET g == t[i].game_id
        p == PrevInGame(t, g, i - 1)
        before == LastKnown(t, g, col, p)
        after == LastKnown(t, g, col, i)
    IN  IF before = Null \/ after = Null THEN 0 ELSE after[1] - before[1]

\* C9: the points of a record are the home delta plus the away delta of the
\* forward-filled cumulative scores, both taken against the previous record
\* of the same game only (a delta with no known score on one side counts 0),
\* and they are never negative.
C9_Points ==
    cpc = "clean" =>
        \A n \in 1..Len(clean) :
            /\ clean[n].points = Delta(raw_v3, "score_home", clean[n].src)
                                   + Delta(raw_v3, "score_away", clean[n].src)
            /\ clean[n].points >= 0

C9_Witness ==
    /\ cpc = "clean"
    /\ Len(clean) = 3
    /\ raw_v3[1].game_id = "g1" /\ raw_v3[2].game_id = "g2" /\ raw_v3[3].game_id = "g1"
    /\ raw_v3[1].score_home = <<"0">>
    /\ raw_v3[2].score_home = <<"6">> /\ raw_v3[2].score_away = <<"6">>
    /\ raw_v3[3].score_home = <<"6">> /\ raw_v3[3].score_away = <<"0">>
    /\ clean[3].points = 6

\* the closed enumeration of event types
EventTypes ==
    { <<"Shot">>, <<"Free Throw">>, <<"Foul">>, <<"Turnover">>, <<"Steal">>, <<"Block">>,
      <<"Rebound">>, <<"Jump Ball">>, <<"Substitution">>, <<"Timeout">>, <<"Other">> }

\* the action types the rewrite table or an event type accounts for
Recognized ==
    (EventTypes \ {<<"Other">>}) \cup {<<"Made Shot">>, <<"Missed Shot">>, <<"Violation">>}

\* C10: a record whose action_type is not a recognized category is emitted
\* with event type Other and no payload, so the event type of every record
\* that has an action_type lies in the closed enumeration.
C10_OtherBucket ==
    cpc = "clean" =>
        \A n \in 1..Len(clean) :
            LET c == clean[n]
                ty == strip_chars(raw_v3[c.src].action_type)
            IN  ty # Null =>
                /\ c.type \in EventTypes
                /\ ty \notin Recognized =>
                       /\ c.type = <<"Other">>
                       /\ \A name \in DetailNames : c.events[name] = Null

\* the rank of a token in the lexical order of a Categorical: "-" sorts
\* before the digits, the digits before the letters of a game id
TokenRank(c) ==
    IF c = "-" THEN 0
    ELSE IF IsDigit(c) THEN 1 + DigitVal(c)
    ELSE IF c = "g1" THEN 11
    ELSE 12

\* lexical order of two texts
RECURSIVE LexLess(_, _)
LexLess(a, b) ==
    IF b = <<>> THEN FALSE
    ELSE IF a = <<>> THEN TRUE
    ELSE IF Head(a) # Head(b) THEN TokenRank(Head(a)) < TokenRank(Head(b))
    ELSE LexLess(Tail(a), Tail(b))

\* the order of (game_id, action_number)
PairLess(r1, r2) ==
    \/ TokenRank(r1.game_id) < TokenRank(r2.game_id)
    \/ r1.game_id = r2.game_id /\ r1.action_number < r2.action_number

\* action_number is unique within each game
UniqueNumbers ==
    \A i, j \in 1..Len(raw_v3) :
        (i # j /\ raw_v3[i].game_id = raw_v3[j].game_id)
            => raw_v3[i].action_number # raw_v3[j].action_number

\* C11 as stated: with action_number unique within each game, the action ids
\* are unique, and their lexical order agrees with the order of
\* (game_id, action_number) for every pair of records.
C11_ActionIdOrder ==
    (cpc = "clean" /\ UniqueNumbers) =>
        \A m, n \in 1..Len(clean) :
            /\ m # n => clean[m].action_id # clean[n].action_id
            /\ LexLess(clean[m].action_id, clean[n].action_id)
                   <=> PairLess(raw_v3[clean[m].src], raw_v3[clean[n].src])

\* C11 as amended: the action ids are unique, and their lexical order agrees
\* with the order of (game_id, action_number) for every pair of records whose
\* action numbers have at most four digits.
C11_ActionIdOrderUpTo9999 ==
    (cpc = "clean" /\ UniqueNumbers) =>
        \A m, n \in 1..Len(clean) :
            /\ m # n => clean[m].action_id # clean[n].action_id
            /\ (raw_v3[clean[m].src].action_number <= 9999
                  /\ raw_v3[clean[n].src].action_number <= 9999)
                 => (LexLess(clean[m].action_id, clean[n].action_id)
                       <=> PairLess(raw_v3[clean[m].src], raw_v3[clean[n].src]))

C11_Witness ==
    /\ cpc = "clean"
    /\ Len(clean) = 3
    /\ clean[1].action_id = <<"g1", "-", "0", "0", "1", "0">>
    /\ clean[2].action_id = <<"g1", "-", "0", "0", "0", "2">>
    /\ clean[3].action_id = <<"g2", "-", "0", "0", "0", "1">>

\* C12: a payload column is populated exactly on the records of its own
\* event type: a record of a payload-bearing type has the payload of that
\* type and no other, and no record has a payload of a different type.
C12_OnePayload ==
    cpc = "clean" =>
        \A n \in 1..Len(clean) :
            /\ \A name \in DetailNames :
                   (clean[n].events[name] # Null) <=> (clean[n].type = <<name>>)
            /\ clean[n].type \in {<<name>> : name \in DetailNames} =>
                   Cardinality({name \in DetailNames : clean[n].events[name] # Null}) = 1

C12_Witness ==
    /\ cpc = "clean"
    /\ Len(clean) = 1
    /\ clean[1].type = <<"Free Throw">>
    /\ clean[1].events["Free Throw"] = Some([attempt |-> Some(1), of |-> Some(2), made |-> FALSE])
    /\ \A name \in DetailNames \ {"Free Throw"} : clean[1].events[name] = Null

\* m + s/60 of a valid clock text PT<m>M<s>S, in 1/6000 of a minute
ClockValue(s) ==
    LET e == CHOOSE x \in 3..Len(s) - 3 :
                 IsDigits(SubSeq(s, 3, x)) /\ s[x + 1] = "M"
    IN  6000 * DigitsValue(SubSeq(s, 3, e)) + Hundredths(SubSeq(s, e + 2, Len(s) - 1))

\* C14: for every record whose clock is a valid text PT<m>M<s>S,
\* mins_remaining is m + s/60.
C14_MinsRemaining ==
    cpc = "clean" =>
        \A n \in 1..Len(clean) :
            ValidClock(raw_v3[clean[n].src].clock) =>
                clean[n].mins_remaining = ClockValue(raw_v3[clean[n].src].clock)

\* does the description hold the word w
Mentions(d, w) == \E k \in 1..Len(d) : d[k] = w

\* C16: the event type is the action type rewritten by the table (Made Shot
\* and Missed Shot to Shot, Violation to Foul), and for a record that has no
\* action type (null or blank) it is Steal or Block according to which of
\* STEAL and BLOCK the description holds, and null when it holds neither.
C16_RewriteAndFallback ==
    cpc = "clean" =>
        \A n \in 1..Len(clean) :
            LET ty == strip_chars(raw_v3[clean[n].src].action_type)
                d == raw_v3[clean[n].src].description
            IN  /\ ty \in {<<"Made Shot">>, <<"Missed Shot">>} => clean[n].type = <<"Shot">>
                /\ ty = <<"Violation">> => clean[n].type = <<"Foul">>
                /\ ty = Null =>
                     /\ (Mentions(d, "STEAL") /\ ~Mentions(d, "BLOCK")) => clean[n].type = <<"Steal">>
                     /\ (Mentions(d, "BLOCK") /\ ~Mentions(d, "STEAL")) => clean[n].type = <<"Block">>
                     /\ (Mentions(d, "BLOCK") /\ Mentions(d, "STEAL"))
                            => clean[n].type \in {<<"Steal">>, <<"Block">>}
                     /\ (~Mentions(d, "BLOCK") /\ ~Mentions(d, "STEAL")) => clean[n].type = Null

C16_Witness ==
    /\ cpc = "clean"
    /\ Len(clean) = 1
    /\ raw_v3[1].action_type = <<" ">>
    /\ Mentions(raw_v3[1].description, "STEAL")
    /\ clean[1].type = <<"Steal">>

(* ---------------------------- raw_pbp: claims --------------------------- *)

\* the documents of the batch whose shape is the one the endpoint promises
WellFormed == {k \in 1..Len(docs) : ~df_raises(endpoint_version, docs[k])}

\* the rows of the well-formed documents among docs[k..], in order
RECURSIVE RowsOfWellFormed(_)
RowsOfWellFormed(k) ==
    IF k > Len(docs) THEN <<>>
    ELSE (IF k \in WellFormed THEN df_from_json(endpoint_version, docs[k]) ELSE <<>>)
         \o RowsOfWellFormed(k + 1)

\* C13: when a batch holds a malformed document next to well-formed ones,
\* raw_pbp is not aborted, and what it returns is the rows of every other
\* document of the batch.
C13_MalformedDropped ==
    (WellFormed # {} /\ WellFormed # 1..Len(docs)) =>
        /\ rpc # "raised"
        /\ rpc = "done" => raw = RowsOfWellFormed(1)

====
